---- MODULE Spec2Model ----
(***************************************************************************)
(* Model of js/app.js: the export session of the xAPI statement exporter.  *)
(* One session = form submission, connection probe, recursive page fetch   *)
(* (fetchStatements.fetch), processStatements, notification, form reset.   *)
(* Every action is one JavaScript task: an event handler or an XHR         *)
(* callback together with the promise continuations (microtasks) that run  *)
(* before the next task can start.                                         *)
(***************************************************************************)
EXTENDS Integers, Sequences, FiniteSets, TLC

\* ---------------------------------------------------------------- bounds
\* Page requests one session may issue: the store's answer to request
\* number MaxPages carries no continuation token.
MaxPages == 2
\* Records in one page returned by the store.
MaxPageSize == 2
\* Largest value typed into the limit field, besides one above the ceiling.
MaxLimit == 2
\* Entries of a question's choices array.
MaxChoices == 2
\* Ids of one response pattern.
MaxIds == 2
\* Records in a collection handed to the jsonl export.
MaxRecords == 2
\* Characters of an actor's address, after any mailto: prefix.
MaxAddrLen == 4

\* ------------------------------------------------------ program constants
\* app.js:299-301  if (limit > 1000) limit = 1000
HardCeiling == 1000
\* app.js:83,150   res.status !== 200
StatusOK == 200

\* ------------------------------------------------------------- JS values
\* A field of a statement is abstracted to the kind of JavaScript value it
\* holds: undefined (absent), null, "" (empty string), 0, a non-empty
\* string, or an object.
ValueKinds == {"undefined", "null", "empty", "zero", "string", "object"}

\* JavaScript ToBoolean: undefined, null, "" and 0 are falsy.
Truthy(v) == v \in {"string", "object"}

\* Property read o.p where o has kind `owner`: a primitive has no own
\* properties, so the read yields undefined.
Prop(owner, value) == IF owner = "object" THEN value ELSE "undefined"

\* A statement: id, actor (with actor.mbox), verb (with verb.display).
StatementShapes ==
    { s \in [id : {0}, actor : ValueKinds, mbox : ValueKinds,
             verb : ValueKinds, display : ValueKinds] :
        /\ (s.actor # "object" => s.mbox = "undefined")
        /\ (s.verb # "object" => s.display = "undefined") }

Stmt(i, a, m, v, d) == [id |-> i, actor |-> a, mbox |-> m, verb |-> v, display |-> d]

\* The filter predicate of fetchStatements.fetch:
\*   s => s.actor && s.actor.mbox && s.verb && s.verb.display
acceptNoDisplay(s) ==
    /\ Truthy(s.actor)
    /\ Truthy(Prop(s.actor, s.mbox))
    /\ Truthy(s.verb)

accept(s) ==
    /\ Truthy(s.actor)
    /\ Truthy(Prop(s.actor, s.mbox))
    /\ Truthy(s.verb)
    /\ Truthy(Prop(s.verb, s.display))

\* response.statements.filter(...)
filterUnfiltered(statements) == statements

filterStatements(statements) == SelectSeq(statements, accept)

\* allStatements.concat(filteredStatements)
concatPrepend(all, filtered) == filtered \o all

concat(all, filtered) == all \o filtered

\* ------------------------------------------------------------- the store
\* Records the store serves in the session model: two well-formed ones and
\* one whose mailbox is the empty string.
StorePool ==
    { Stmt(1, "object", "string", "object", "object"),
      Stmt(2, "object", "string", "object", "object"),
      Stmt(3, "object", "empty", "object", "object") }

\* Sequences of at most n distinct members of S.
SeqsUpTo(S, n) ==
    UNION { { q \in [1..k -> S] : \A i, j \in 1..k : i # j => q[i] # q[j] } : k \in 0..n }

\* Continuation tokens: response.more absent, "", or a URL.
NoToken == "null"
Tokens == {NoToken, "", "more1", "more2"}

\* response.more && response.more !== ""
TokenPresent(tok) == tok \notin {NoToken, ""}

\* What a getStatements callback can receive: a status, and a body that is
\* a page ({statements: [...], more: ...}), JSON without a statements
\* member, or text that JSON.parse / .filter cannot handle.
Statuses == {StatusOK, 401}

PageResponses ==
    [status : {StatusOK}, body : {"page"},
     statements : SeqsUpTo(StorePool, MaxPageSize), more : Tokens]

FailResponses ==
    [status : {401}, body : {"nostatements", "garbled"},
     statements : {<<>>}, more : {NoToken}]
    \cup
    [status : {StatusOK}, body : {"nostatements", "garbled"},
     statements : {<<>>}, more : {NoToken}]

Responses == PageResponses \cup FailResponses

\* ---------------------------------------------------------- form inputs
LimitInputs == (0..MaxLimit) \cup {HardCeiling + 1}
Formats == {"csv", "jsonl", "raw", "xml"}

VARIABLES
    isFetching,     \* app.js:35   the shared fetching flag
    formDisabled,   \* disableForm: #queryForm :input disabled
    stopDisabled,   \* disableForm: #stopButton disabled
    alertMessage,   \* #alertMessage: "", "success" or "danger"
    shown,          \* showMessage calls of the current session
    progress,       \* updateProgressBar calls of the current session
    pc,             \* "idle", "probing", "fetching", "hung", "done"
    limit,          \* query.limit
    format,         \* #outputFormat value read at submission
    allStatements,  \* fetchStatements: accumulator
    more,           \* fetchStatements: continuation token
    fetchedCount,   \* fetchStatements: fetched counter
    run,            \* the fetchStatements promise: "none","pending","resolved","rejected"
    result,         \* the value the promise resolved with
    inFlight,       \* getStatements calls whose callback has not run yet
    probe,          \* the testConnection promise: "none","pending","ok","failed"
    probeStatus,    \* history: the status the probe's callback received, 0 before
    requests,       \* history: the token of every page request issued
    pages,          \* history: every response a page request received
    stoppedAt,      \* history: page requests issued when stop was first clicked, -1 if not
    processCalls,   \* processStatements invocations of the current session
    delivered,      \* files handed to the browser in the current session
    earlier,        \* history: "none", or how the session before this one went
    rec,            \* checks of one function: the input under test
    verdict         \* checks of one function: "pending", or what it returned

vars == << isFetching, formDisabled, stopDisabled, alertMessage, shown, progress,
           pc, limit, format, allStatements, more, fetchedCount, run, result,
           inFlight, probe, probeStatus, requests, pages, stoppedAt, processCalls,
           delivered, earlier, rec, verdict >>


\* ------------------------------------------------------ helper operators
\* app.js:299-301  the limit is silently capped at the ceiling
CapLimit(l) == IF l > HardCeiling THEN HardCeiling ELSE l

\* app.js:83  the probe resolves only for status 200
ProbeOkAny(status) == TRUE

ProbeOk(status) == status = StatusOK

\* app.js:146  fetch() returns the accumulator without a request
fetchDoneEarly(isF, cnt, lim) == ~isF \/ cnt + 1 >= lim

fetchDoneLate(isF, cnt, lim) == ~isF \/ cnt > lim

fetchDoneIgnoringStop(isF, cnt, lim) == cnt >= lim

fetchDone(isF, cnt, lim) == ~isF \/ cnt >= lim

\* app.js:165  response.more && response.more !== "" && isFetching
hasMore(tok, isF) == TokenPresent(tok) /\ isF

\* app.js:165-167 with 146: the callback issues the next page request
RecurseIgnoringStop(tok, isF, cnt, lim) == TokenPresent(tok) /\ ~(cnt >= lim)

Recurse(tok, isF, cnt, lim) == hasMore(tok, isF) /\ ~fetchDone(isF, cnt, lim)

\* app.js:166  more = response.more
assignMoreStale(tok, old) == old

assignMore(tok, old) == tok

\* app.js:150-159  the callback rejects: status is not 200, or the parsed
\* body has no statements member
RejectsBodyOnly(res) == res.body = "nostatements"

Rejects(res) == res.status # StatusOK \/ res.body = "nostatements"

\* app.js:155,161  reached past the status check, JSON.parse or .filter
\* throws inside the callback: the promise is never settled
CallbackThrows(res) == res.body = "garbled"

\* app.js:188-261  processStatements throws before the download is created.
\* The statements of StorePool carry an object and no result, so the csv
\* row mapper does not throw for them; what it does with a result is
\* CsvSpec's subject.
ProcessThrows(statements, fmt) == fmt \notin {"csv", "jsonl", "raw"}

\* app.js:72-75
disableFormStopOnly(disable) == formDisabled' = FALSE /\ stopDisabled' = ~disable

disableForm(disable) == formDisabled' = disable /\ stopDisabled' = ~disable

\* app.js:172-175  updateProgressBar(percentage, currentCount, totalCount)
\* with currentCount = allStatements.length, totalCount = parseInt(query.limit)
progressReportSwapped(all, lim) == [current |-> lim, total |-> Len(all)]

progressReport(all, lim) == [current |-> Len(all), total |-> lim]

\* app.js:282  isFetching = true
startFetchingKeep(old) == old

startFetching(old) == TRUE

\* app.js:47-50
showMessage(type) == alertMessage' = type /\ shown' = shown + 1

\* app.js:325-327, 331-335: the submit handler after fetchStatements
\* resolved with `statements`
Export(statements) ==
    /\ processCalls' = processCalls + 1
    /\ IF ProcessThrows(statements, format)
         THEN delivered' = delivered /\ showMessage("danger")
         ELSE delivered' = delivered + 1 /\ showMessage("success")
    /\ disableForm(FALSE)
    /\ pc' = "done"

\* app.js:328-335: the submit handler after an awaited promise rejected
FailSilent ==
    /\ UNCHANGED << processCalls, delivered, alertMessage, shown >>
    /\ disableForm(FALSE)
    /\ pc' = "done"

FailNoReset ==
    /\ UNCHANGED << processCalls, delivered, formDisabled, stopDisabled >>
    /\ showMessage("danger")
    /\ pc' = "done"

Fail ==
    /\ UNCHANGED << processCalls, delivered >>
    /\ showMessage("danger")
    /\ disableForm(FALSE)
    /\ pc' = "done"

\* ---------------------------------------------------------------- state
\* app.js:33-38 the page once the document is ready. The stop button's
\* initial state is set by the markup.
InitSession ==
    /\ isFetching = TRUE
    /\ formDisabled = FALSE
    /\ stopDisabled \in BOOLEAN
    /\ alertMessage = ""
    /\ shown = 0
    /\ progress = <<>>
    /\ pc = "idle"
    /\ limit = 0
    /\ format = "csv"
    /\ allStatements = <<>>
    /\ more = NoToken
    /\ fetchedCount = 0
    /\ run = "none"
    /\ result = <<>>
    /\ inFlight = 0
    /\ probe = "none"
    /\ probeStatus = 0
    /\ requests = <<>>
    /\ pages = <<>>
    /\ stoppedAt = -1
    /\ processCalls = 0
    /\ delivered = 0
    /\ earlier = "none"

Init ==
    /\ InitSession
    /\ rec = Stmt(0, "undefined", "undefined", "undefined", "undefined")
    /\ verdict = "pending"

\* -------------------------------------------------------------- actions
\* app.js:280-311  $('#queryForm').submit, up to the awaited testConnection.
\* `throws`: changeConfig/getStatements throws synchronously (app.js:89-91).
Submit(limitInput, fmt, throws) ==
    /\ ~formDisabled
    /\ isFetching' = startFetching(isFetching)
    /\ progress' = << [current |-> 0, total |-> limitInput] >>
    /\ limit' = CapLimit(limitInput)
    /\ format' = fmt
    /\ allStatements' = <<>>
    /\ more' = NoToken
    /\ fetchedCount' = 0
    /\ run' = "none"
    /\ result' = <<>>
    /\ requests' = <<>>
    /\ pages' = <<>>
    /\ stoppedAt' = -1
    /\ processCalls' = 0
    /\ delivered' = 0
    /\ probeStatus' = 0
    /\ UNCHANGED << rec, verdict >>
    /\ IF throws
         THEN /\ probe' = "failed"
              /\ inFlight' = inFlight
              /\ alertMessage' = "danger"
              /\ shown' = 1
              /\ disableForm(FALSE)
              /\ pc' = "done"
         ELSE /\ probe' = "pending"
              /\ inFlight' = inFlight + 1
              /\ alertMessage' = ""
              /\ shown' = 0
              /\ disableForm(TRUE)
              /\ pc' = "probing"

\* app.js:82-88 the probe's callback, then app.js:313-324 and the first
\* call of fetch() (app.js:140-149).
ProbeResponse(status) ==
    /\ pc = "probing"
    /\ probeStatus' = status
    /\ UNCHANGED << isFetching, limit, format, pages, stoppedAt, progress, earlier, rec,
                    verdict >>
    /\ allStatements' = <<>>
    /\ more' = NoToken
    /\ fetchedCount' = 0
    /\ IF ~ProbeOk(status)
         THEN /\ probe' = "failed"
              /\ inFlight' = inFlight - 1
              /\ UNCHANGED << run, result, requests >>
              /\ Fail
         ELSE /\ probe' = "ok"
              /\ IF fetchDone(isFetching, 0, limit)
                   THEN /\ run' = "resolved"
                        /\ result' = <<>>
                        /\ inFlight' = inFlight - 1
                        /\ UNCHANGED requests
                        /\ Export(<<>>)
                   ELSE /\ run' = "pending"
                        /\ requests' = Append(requests, more')
                        /\ inFlight' = inFlight
                        /\ UNCHANGED << result, processCalls, delivered, alertMessage,
                                        shown, formDisabled, stopDisabled >>
                        /\ pc' = "fetching"

\* app.js:149-176 the callback of a page request, with the recursive
\* fetch() of app.js:167 and, when the promise settles, app.js:325-335.
PageResponse(res) ==
    /\ pc = "fetching"
    /\ res \in Responses
    /\ (Len(requests) >= MaxPages => ~TokenPresent(res.more))
    /\ pages' = Append(pages, res)
    /\ UNCHANGED << isFetching, limit, format, probe, probeStatus, stoppedAt, earlier, rec,
                    verdict >>
    /\ IF Rejects(res)
         THEN /\ run' = "rejected"
              /\ inFlight' = inFlight - 1
              /\ UNCHANGED << allStatements, more, fetchedCount, result, requests, progress >>
              /\ Fail
         ELSE IF CallbackThrows(res)
         THEN /\ pc' = "hung"
              /\ inFlight' = inFlight - 1
              /\ UNCHANGED << allStatements, more, fetchedCount, run, result, requests,
                              progress, processCalls, delivered, alertMessage, shown,
                              formDisabled, stopDisabled >>
         ELSE LET filtered == filterStatements(res.statements)
                  all == concat(allStatements, filtered)
                  cnt == fetchedCount + Len(filtered)
              IN  /\ allStatements' = all
                  /\ fetchedCount' = cnt
                  /\ more' = IF hasMore(res.more, isFetching)
                               THEN assignMore(res.more, more) ELSE more
                  /\ progress' = Append(progress, progressReport(all, limit))
                  /\ IF Recurse(res.more, isFetching, cnt, limit)
                       THEN /\ requests' = Append(requests, more')
                            /\ inFlight' = inFlight
                            /\ UNCHANGED << run, result, pc, processCalls, delivered,
                                            alertMessage, shown, formDisabled, stopDisabled >>
                       ELSE /\ requests' = requests
                            /\ inFlight' = inFlight - 1
                            /\ run' = "resolved"
                            /\ result' = all
                            /\ Export(all)

\* app.js:339-341  $('#stopButton').click
Stop ==
    /\ ~stopDisabled
    /\ isFetching' = FALSE
    /\ stoppedAt' = IF pc \in {"probing", "fetching"} /\ stoppedAt = -1
                      THEN Len(requests) ELSE stoppedAt
    /\ UNCHANGED << formDisabled, stopDisabled, alertMessage, shown, progress, pc, limit,
                    format, allStatements, more, fetchedCount, run, result, inFlight,
                    probe, probeStatus, requests, pages, processCalls, delivered, earlier,
                    rec, verdict >>

Next ==
    \/ \E l \in LimitInputs, f \in Formats, t \in BOOLEAN :
          Submit(l, f, t) /\ UNCHANGED earlier
    \/ \E status \in Statuses : ProbeResponse(status)
    \/ \E res \in Responses : PageResponse(res)
    \/ Stop

Spec == Init /\ [][Next]_vars

\* The same session with the output format left at one valid and one
\* invalid choice: the format is not read before fetchStatements settles.
LiveNext ==
    \/ \E l \in LimitInputs, f \in {"jsonl", "xml"}, t \in BOOLEAN :
          Submit(l, f, t) /\ UNCHANGED earlier
    \/ \E status \in Statuses : ProbeResponse(status)
    \/ \E res \in Responses : PageResponse(res)
    \/ Stop

\* Every request that was issued gets its response.
LiveSpec ==
    /\ Init
    /\ [][LiveNext]_vars
    /\ WF_vars(\E status \in Statuses : ProbeResponse(status))
    /\ WF_vars(\E res \in Responses : PageResponse(res))

\* Session after session, remembering in `earlier` how the one before went:
\* "stopped" when stop was clicked in it, "failed" when it ended on a probe
\* or fetch error, "exported" otherwise.
Outcome ==
    IF stoppedAt >= 0 THEN "stopped"
    ELSE IF probe = "failed" \/ run = "rejected" THEN "failed"
    ELSE "exported"

ChainNext ==
    \/ \E l \in LimitInputs, f \in {"jsonl", "xml"}, t \in BOOLEAN :
          Submit(l, f, t) /\ earlier' = IF pc = "idle" THEN "none" ELSE Outcome
    \/ \E status \in Statuses : ProbeResponse(status)
    \/ \E res \in Responses : PageResponse(res)
    \/ Stop

ChainSpec == Init /\ [][ChainNext]_vars

\* ------------------------------------------------- the filter on its own
\* app.js:161 applied to a one-record page, for every shape of record.
FilterInit ==
    /\ InitSession
    /\ rec \in StatementShapes
    /\ verdict = "pending"

ApplyFilter ==
    /\ verdict = "pending"
    /\ verdict' = IF filterStatements(<< rec >>) = << rec >> THEN "accepted" ELSE "dropped"
    /\ UNCHANGED << isFetching, formDisabled, stopDisabled, alertMessage, shown, progress,
                    pc, limit, format, allStatements, more, fetchedCount, run, result,
                    inFlight, probe, probeStatus, requests, pages, stoppedAt,
                    processCalls, delivered, earlier, rec >>

FilterNext == ApplyFilter

FilterSpec == FilterInit /\ [][FilterNext]_vars


\* ------------------------------------------------- vocabulary of the claims
\* A response that is a page: status 200 and a statements collection.
IsPage(res) == res.status = 200 /\ res.body = "page"

\* A response the session must fail on: a non-200 status, or a parsed body
\* without the statements collection.
IsFetchError(res) == res.status # 200 \/ (res.status = 200 /\ res.body = "nostatements")

\* A record with a usable mailbox and display map, spelled out by kind.
Usable(s) ==
    /\ s.actor = "object" /\ s.mbox \in {"string", "object"}
    /\ s.verb = "object" /\ s.display \in {"string", "object"}

AcceptedIn(res) == SelectSeq(res.statements, Usable)

RECURSIVE AcceptedOf(_)
\* The accepted records of the received pages, page after page.
AcceptedOf(ps) ==
    IF ps = <<>> THEN <<>>
    ELSE AcceptedOf(SubSeq(ps, 1, Len(ps) - 1)) \o AcceptedIn(ps[Len(ps)])

IsPrefix(a, b) == Len(a) <= Len(b) /\ SubSeq(b, 1, Len(a)) = a

\* ---------------------------------------------------------------------- C1
\* C1: in every reachable state of a fetch session the number of accumulated
\* records never exceeds query.limit.
C1_CountWithinLimit == Len(allStatements) <= limit

\* ---------------------------------------------------------------------- C2
\* C2 as stated: once the page fetch that was in flight when stop was clicked
\* has completed, the run has terminated with the accumulated records as a
\* success outcome, whatever that response was.
C2_StopAlwaysSucceeds ==
    (stoppedAt >= 1 /\ Len(pages) >= stoppedAt)
        => (pc = "done" /\ run = "resolved" /\ result = allStatements)

\* C2 amended: if the response of the page fetch that was in flight when stop
\* was clicked is a page, the run issues no further request and resolves with
\* the accumulated records, that page's accepted records included; if it is
\* a fetch error, the run rejects.
C2_StopAfterPageSucceeds ==
    (stoppedAt >= 1 /\ Len(pages) >= stoppedAt)
        => /\ IsPage(pages[stoppedAt])
                => /\ pc = "done"
                   /\ run = "resolved"
                   /\ Len(pages) = stoppedAt
                   /\ Len(requests) = stoppedAt
                   /\ result = allStatements
                   /\ result = AcceptedOf(pages)
           /\ IsFetchError(pages[stoppedAt])
                => (pc = "done" /\ run = "rejected" /\ delivered = 0)

C2_Witness ==
    /\ stoppedAt = 1
    /\ pc = "done"
    /\ run = "resolved"
    /\ Len(pages) = 1
    /\ TokenPresent(pages[1].more)
    /\ Len(result) = 2
    /\ Len(result) < limit

\* ---------------------------------------------------------------------- C3
\* C3: once stop has been clicked in a session no new page request is
\* issued in it; the request in flight at that moment stays in flight until
\* its response arrives, and the accepted records of that response are
\* appended to the accumulator.
C3_NoFetchAfterStop ==
    /\ (stoppedAt >= 0 /\ pc \in {"probing", "fetching", "done"}) => ~isFetching
    /\ stoppedAt >= 0 => Len(requests) = stoppedAt
    /\ (stoppedAt >= 1 /\ Len(pages) < stoppedAt) => (pc = "fetching" /\ inFlight = 1)
    /\ (stoppedAt >= 1 /\ Len(pages) = stoppedAt /\ IsPage(pages[stoppedAt]))
          => /\ Len(allStatements) >= Len(AcceptedIn(pages[stoppedAt]))
             /\ SubSeq(allStatements,
                       Len(allStatements) - Len(AcceptedIn(pages[stoppedAt])) + 1,
                       Len(allStatements)) = AcceptedIn(pages[stoppedAt])

C3_Witness ==
    /\ stoppedAt = 1
    /\ Len(pages) = 1
    /\ IsPage(pages[1])
    /\ TokenPresent(pages[1].more)
    /\ Len(allStatements) = 1
    /\ fetchedCount < limit
    /\ Len(requests) = 1

\* ---------------------------------------------------------------------- C4
\* C4: if any page fetch of the session returned a non-200 status or a body
\* without the statements collection, the session has failed:
\* processStatements was not invoked and no file was delivered, whatever
\* had been accumulated.
C4_FetchErrorFailsSession ==
    (\E k \in 1..Len(pages) : IsFetchError(pages[k]))
        => /\ pc = "done"
           /\ run = "rejected"
           /\ processCalls = 0
           /\ delivered = 0
           /\ alertMessage = "danger"
           /\ shown = 1

C4_Witness ==
    /\ Len(pages) = 2
    /\ pages[2].status # 200
    /\ Len(allStatements) > 0
    /\ pc = "done"

\* ---------------------------------------------------------------------- C5
\* C5: a page request is issued only after the probe of the session got
\* status 200; a session whose probe failed has ended with a failure
\* notification, no page request and no export.
C5_ProbeBeforePages ==
    /\ Len(requests) > 0 => probeStatus = 200
    /\ pc = "probing" => (requests = <<>> /\ probeStatus = 0)
    /\ (probe = "failed" \/ probeStatus \notin {0, 200})
          => /\ pc = "done"
             /\ alertMessage = "danger"
             /\ shown = 1
             /\ requests = <<>>
             /\ pages = <<>>
             /\ run = "none"
             /\ processCalls = 0
             /\ delivered = 0

C5_Witness == probeStatus = 401 /\ pc = "done" /\ limit > 0 /\ isFetching


\* ---------------------------------------------------------------------- C6
\* C6: when every request gets its response and the store ends its pages
\* with an empty or absent continuation token, a pending run settles (or
\* its callback died on a body that is no page); a run resolves only when
\* the target count is reached, the last page had no continuation token, or
\* stop was clicked; and a further request follows a page only when none of
\* the three held as that page arrived.
C6_RunTerminates ==
    /\ (run = "pending" /\ pc = "fetching") ~> (run \in {"resolved", "rejected"} \/ pc = "hung")
    /\ [](run = "resolved"
            => \/ ~isFetching
               \/ fetchedCount >= limit
               \/ (pages # <<>> /\ pages[Len(pages)].more \in {NoToken, ""}))
    /\ []((pc = "fetching" /\ pages # <<>>)
            => /\ stoppedAt \in {-1, Len(requests)}
               /\ fetchedCount < limit
               /\ pages[Len(pages)].more \notin {NoToken, ""})

C6_Witness ==
    /\ run = "resolved"
    /\ isFetching
    /\ Len(pages) = 2
    /\ fetchedCount < limit
    /\ pages[2].more = ""

C8_AccumulatorIsFilteredConcat ==
    /\ [](/\ allStatements = AcceptedOf(pages)
          /\ \A i \in 1..Len(allStatements) : Usable(allStatements[i])
          /\ fetchedCount = Len(allStatements))
    /\ [][pc = "fetching" => IsPrefix(allStatements, allStatements')]_vars

C8_Witness ==
    /\ Len(pages) = 2
    /\ Len(pages[1].statements) = 2
    /\ Len(pages[2].statements) = 2
    /\ Len(allStatements) = 2
    /\ allStatements[1].id = 2
    /\ allStatements[2].id = 1

\* ---------------------------------------------------------------------- C9
NonNull(v) == v \notin {"undefined", "null"}

\* C9 as stated: the filter accepts a record iff actor, actor.mbox, verb and
\* verb.display are all non-null, an empty string counting as non-null.
C9_AcceptIffNonNull ==
    verdict # "pending"
        => (verdict = "accepted"
              <=> /\ NonNull(rec.actor) /\ NonNull(Prop(rec.actor, rec.mbox))
                  /\ NonNull(rec.verb) /\ NonNull(Prop(rec.verb, rec.display)))

\* C9 amended: the filter accepts a record iff actor and verb are objects
\* and actor.mbox and verb.display are a non-empty string or an object; a
\* record with one of the four deleted, null, "" or 0 is dropped.
C9_AcceptIffTruthy ==
    verdict # "pending"
        => /\ verdict = "accepted" <=> Usable(rec)
           /\ (\E f \in {"actor", "mbox", "verb", "display"} :
                   rec[f] \in {"undefined", "null", "empty", "zero"})
                => verdict = "dropped"

C9_Witness ==
    /\ verdict = "dropped"
    /\ rec.actor = "object" /\ rec.mbox = "empty"
    /\ rec.verb = "object" /\ rec.display = "object"

\* --------------------------------------------------------------------- C10
\* C10: at most one network request is in flight; a page request is issued
\* only when the probe and every earlier page request got their responses;
\* processStatements runs only when no request is outstanding.
C10_OneRequestAtATime ==
    /\ inFlight \in {0, 1}
    /\ inFlight = 1 <=> pc \in {"probing", "fetching"}
    /\ pc = "probing" => requests = <<>>
    /\ pc = "fetching" => (probeStatus = 200 /\ Len(requests) = Len(pages) + 1)
    /\ processCalls > 0 => (inFlight = 0 /\ Len(pages) = Len(requests) /\ pc = "done")

C10_Witness ==
    /\ pc = "fetching"
    /\ Len(requests) = 2
    /\ Len(pages) = 1
    /\ inFlight = 1


\* --------------------------------------------------------------------- C11
\* C11: every page received is followed by exactly one progress report, with
\* current = the accumulator's length after that page and total = query.limit;
\* the reports are in page order and all made before processStatements runs,
\* so the reported current counts never decrease. (The first entry of
\* `progress` is the 0 / limit report of the submit handler.)
C11_ProgressPerPage ==
    pc # "idle"
        => /\ Len(progress) = 1 + Cardinality({ k \in 1..Len(pages) : IsPage(pages[k]) })
           /\ \A k \in 1..Len(pages) :
                 IsPage(pages[k])
                    => progress[k + 1] =
                         [current |-> Len(AcceptedOf(SubSeq(pages, 1, k))), total |-> limit]
           /\ \A i, j \in 1..Len(progress) :
                 i < j => progress[i].current <= progress[j].current
           /\ processCalls > 0 => Len(progress) = Len(pages) + 1

C11_Witness ==
    /\ Len(progress) = 3
    /\ progress[2].current = 1
    /\ progress[3].current = 3
    /\ progress[3].total = 1000
    /\ processCalls = 1

\* --------------------------------------------------------------------- C12
\* C12: a session that has ended has shown exactly one notification: success
\* iff the probe and every page fetch succeeded and the file was delivered,
\* a failure notification otherwise; a running session has shown none.
C12_OneNotification ==
    /\ pc = "done"
          => /\ shown = 1
             /\ alertMessage \in {"success", "danger"}
             /\ alertMessage = "success"
                   <=> /\ probeStatus = 200
                       /\ \A k \in 1..Len(pages) : IsPage(pages[k])
                       /\ run = "resolved"
                       /\ delivered = 1
    /\ pc \in {"probing", "fetching", "hung"} => (shown = 0 /\ alertMessage = "")

C12_Witness ==
    /\ pc = "done"
    /\ alertMessage = "danger"
    /\ Len(pages) = 2
    /\ pages[2].body = "nostatements"
    /\ Len(allStatements) = 2

\* --------------------------------------------------------------------- C16
\* C16: the fetched count is the number of accepted records accumulated, not
\* the raw page sizes; every page request was issued with that count strictly
\* below query.limit, so the accumulator exceeds the limit by no more than
\* the accepted records of the last page appended.
C16_FetchOnlyBelowLimit ==
    /\ fetchedCount = Len(AcceptedOf(pages))
    /\ \A k \in 1..Len(requests) : Len(AcceptedOf(SubSeq(pages, 1, k - 1))) < limit
    /\ pc = "fetching" => fetchedCount < limit
    /\ (Len(allStatements) > limit /\ pages # <<>>)
          => /\ IsPage(pages[Len(pages)])
             /\ Len(allStatements) - Len(AcceptedIn(pages[Len(pages)])) < limit

C16_Witness ==
    /\ limit = 2
    /\ Len(pages) = 2
    /\ Len(pages[1].statements) = 2
    /\ Len(AcceptedIn(pages[1])) = 1
    /\ Len(allStatements) = 3

\* --------------------------------------------------------------------- C18
\* C18: while a session runs the form inputs are disabled and the stop
\* button enabled; once it has ended, by whatever outcome, the form is
\* enabled and the stop button disabled; a submission is possible only when
\* no session runs, so sessions never overlap.
C18_FormLockedWhileRunning ==
    /\ pc \in {"probing", "fetching"} => (formDisabled /\ ~stopDisabled)
    /\ pc = "done" => (~formDisabled /\ stopDisabled)
    /\ ~formDisabled => (pc \in {"idle", "done"} /\ inFlight = 0)

C18_Witness ==
    /\ pc = "done"
    /\ run = "resolved"
    /\ processCalls = 1
    /\ delivered = 0
    /\ stoppedAt = 1
    /\ ~formDisabled
    /\ stopDisabled

\* --------------------------------------------------------------------- C19
\* C19: a session starts with an empty accumulator, no continuation token, a
\* fetched count of zero and the flag set to fetching, whatever the session
\* before it did: unless stop is clicked in the session itself the flag stays
\* set, and its first request carries no token of the earlier session.
C19_SessionStartsFresh ==
    /\ (pc \in {"probing", "fetching", "done"} /\ stoppedAt = -1) => isFetching
    /\ pc = "probing"
          => (allStatements = <<>> /\ more = NoToken /\ fetchedCount = 0 /\ pages = <<>>)
    /\ (pc = "fetching" /\ pages = <<>>)
          => /\ allStatements = <<>>
             /\ more = NoToken
             /\ fetchedCount = 0
             /\ requests = << NoToken >>
    /\ (earlier = "stopped" /\ stoppedAt = -1 /\ run = "resolved")
          => \/ fetchedCount >= limit
             \/ (pages # <<>> /\ pages[Len(pages)].more \in {NoToken, ""})

C19_Witness ==
    /\ earlier = "stopped"
    /\ stoppedAt = -1
    /\ pc = "fetching"
    /\ Len(requests) = 2
    /\ Len(allStatements) = 1

\* --------------------------------------------------------------------- C20
\* C20: when stop is clicked while the probe is in flight and the probe then
\* gets status 200, the session issues no page request, resolves with an
\* empty record set, calls processStatements once and, the format being one
\* the form offers, delivers a file and shows the success notification.
C20_StopDuringProbe ==
    (stoppedAt = 0 /\ probeStatus = 200)
        => /\ requests = <<>>
           /\ pages = <<>>
           /\ run = "resolved"
           /\ result = <<>>
           /\ pc = "done"
           /\ processCalls = 1
           /\ format \in {"csv", "jsonl", "raw"}
                 => (delivered = 1 /\ alertMessage = "success" /\ shown = 1)

C20_Witness ==
    /\ stoppedAt = 0
    /\ probeStatus = 200
    /\ limit > 0
    /\ delivered = 1
    /\ alertMessage = "success"

\* ============================================== the csv row's question block
\* Strings whose characters matter are sequences of one-character strings.
Quote == "\""
Space == " "

Drop(s, n) == SubSeq(s, n + 1, Len(s))

\* First position of sep in s, 0 when there is none.
IndexOf(s, sep) ==
    LET hits == { i \in 1..(Len(s) - Len(sep) + 1) : SubSeq(s, i, i + Len(sep) - 1) = sep }
    IN  IF hits = {} THEN 0 ELSE CHOOSE i \in hits : \A j \in hits : i <= j

\* String.prototype.split with a non-empty separator: "" splits to [""].
RECURSIVE split(_, _)
split(s, sep) ==
    LET i == IndexOf(s, sep)
    IN  IF i = 0 THEN << s >>
        ELSE << SubSeq(s, 1, i - 1) >> \o split(Drop(s, i - 1 + Len(sep)), sep)

\* Array.prototype.join
RECURSIVE join(_, _)
join(parts, sep) ==
    IF parts = <<>> THEN <<>>
    ELSE IF Len(parts) = 1 THEN parts[1]
    ELSE parts[1] \o sep \o join(Tail(parts), sep)

\* String.prototype.trim
RECURSIVE trim(_)
trim(s) ==
    IF s = <<>> THEN s
    ELSE IF Head(s) = Space THEN trim(Tail(s))
    ELSE IF s[Len(s)] = Space THEN trim(SubSeq(s, 1, Len(s) - 1))
    ELSE s

\* app.js:132-133  .replace(/^\[|\]$/g, '') and .replace(/^"|"$/g, ''): one
\* leading open and one trailing close character are removed.
stripEnds(s, open, close) ==
    LET a == IF s # <<>> /\ Head(s) = open THEN Tail(s) ELSE s
    IN  IF a # <<>> /\ a[Len(a)] = close THEN SubSeq(a, 1, Len(a) - 1) ELSE a

\* app.js:134  the separator is the three characters [,]
Delimiter == << "[", ",", "]" >>

\* app.js:131-136
processStringToArray(inputString) ==
    split(stripEnds(stripEnds(trim(inputString), "[", "]"), Quote, Quote), Delimiter)

\* ---- the inputs: the result object of one statement
IdPool == { << "a" >>, << "b" >> }
Wraps == { "bare", "array", "padded" }
Wrap(w, body) ==
    LET arr == << "[", Quote >> \o body \o << Quote, "]" >>
    IN  CASE w = "bare" -> body
          [] w = "array" -> arr
          [] w = "padded" -> << Space >> \o arr \o << Space >>

\* Pattern texts: ids joined by [,] bare or written as a one-string array,
\* the empty string, and a list separated by a plain comma.
PatternTexts ==
    { Wrap(w, join(ids, Delimiter)) : w \in Wraps, ids \in SeqsUpTo(IdPool, MaxIds) \ { <<>> } }
        \cup { <<>>, << "a", ",", "b" >> }

\* A pattern field is absent (undefined) or holds a text.
PatternInputs ==
    { [present |-> FALSE, text |-> <<>>] } \cup { [present |-> TRUE, text |-> t] : t \in PatternTexts }

\* result.response: absent, or one of these texts.
ResponseInputs ==
    { "absent", "", "yes", "null", "true", "{}", "{\"success\":true}", "{\"success\":false}" }

\* One entry of the choices array is its description.und text, or "missing"
\* when the entry has no description object.
ChoicePool == { "missing", "x", "y" }

\* result.choices: absent, a text that is not JSON, the JSON texts null and
\* {}, or the JSON text of an array of entries.
ChoicesInputs ==
    { [kind |-> k, items |-> <<>>] : k \in { "absent", "text", "null", "object" } }
        \cup { [kind |-> "array", items |-> c] : c \in SeqsUpTo(ChoicePool, MaxChoices) }

ResultInputs ==
    [ response : ResponseInputs, choices : ChoicesInputs,
      correctResponsesPattern : PatternInputs, responses : PatternInputs ]

\* ---- the block, app.js:215-241
\* JSON.parse of the response texts above: a SyntaxError for text that is
\* not JSON, otherwise the kind of the value.
JSONparseResponse(text) ==
    CASE text = "yes" -> [threw |-> TRUE, value |-> "none"]
      [] text = "null" -> [threw |-> FALSE, value |-> "null"]
      [] text = "true" -> [threw |-> FALSE, value |-> "boolean"]
      [] text = "{}" -> [threw |-> FALSE, value |-> "object"]
      [] text = "{\"success\":true}" -> [threw |-> FALSE, value |-> "success"]
      [] text = "{\"success\":false}" -> [threw |-> FALSE, value |-> "failure"]

\* app.js:220  s.result && s.result.response
ResponseTruthy(text) == text \notin { "absent", "" }

\* app.js:224  JSON.parse(s.result.choices).forEach: undefined and free text
\* are a SyntaxError, null and {} have no forEach (TypeError).
ChoicesThrow(choices) == choices.kind # "array"

Entry(id, und) == [id |-> id, answer |-> und]

RECURSIVE entriesFor(_, _)
entriesFor(ids, und) ==
    IF ids = <<>> THEN <<>> ELSE << Entry(Head(ids), und) >> \o entriesFor(Tail(ids), und)

resetAndFillKeep(prev, ids, und) == prev \o entriesFor(ids, und)

\* app.js:228-231, 234-237  the string is emptied, then one entry is appended
\* per id, each with the description of the choice of this iteration.
resetAndFill(prev, ids, und) == entriesFor(ids, und)

RowStart ==
    [ done |-> TRUE, threw |-> FALSE, questionAnswers |-> <<>>, questionPassed |-> "",
      questionCorrectAnswers |-> <<>>, usersAnswer |-> <<>> ]

RowThrew == [ RowStart EXCEPT !.threw = TRUE ]

\* app.js:224-240  the forEach over the choices, from entry number i on.
RECURSIVE forEachChoice(_, _, _, _)
forEachChoice(items, i, sresult, row) ==
    IF i > Len(items) THEN row
    ELSE IF items[i] = "missing" THEN RowThrew
    ELSE IF ~sresult.correctResponsesPattern.present THEN RowThrew
    ELSE IF ~sresult.responses.present THEN RowThrew
    ELSE forEachChoice(items, i + 1, sresult,
            [ row EXCEPT
                !.questionAnswers = @ \o << Entry(i, items[i]) >>,
                !.questionCorrectAnswers =
                    resetAndFill(@, processStringToArray(sresult.correctResponsesPattern.text),
                                 items[i]),
                !.usersAnswer =
                    resetAndFill(@, processStringToArray(sresult.responses.text), items[i]) ])

\* app.js:215-241  the four question fields of one row, or the exception
\* that leaves the mapper.
questionBlock(sresult) ==
    IF ~ResponseTruthy(sresult.response) THEN RowStart
    ELSE LET res == JSONparseResponse(sresult.response)
         IN  IF res.threw \/ res.value = "null" THEN RowThrew
             ELSE IF ChoicesThrow(sresult.choices) THEN RowThrew
             ELSE forEachChoice(sresult.choices.items, 1, sresult,
                    [ RowStart EXCEPT
                        !.questionPassed = IF res.value = "success" THEN "True" ELSE "False" ])

RowPending == [ RowStart EXCEPT !.done = FALSE ]

CsvInit ==
    /\ InitSession
    /\ rec \in ResultInputs
    /\ verdict = RowPending

ExtractRow ==
    /\ ~verdict.done
    /\ verdict' = questionBlock(rec)
    /\ UNCHANGED << isFetching, formDisabled, stopDisabled, alertMessage, shown, progress,
                    pc, limit, format, allStatements, more, fetchedCount, run, result,
                    inFlight, probe, probeStatus, requests, pages, stoppedAt,
                    processCalls, delivered, earlier, rec >>

CsvNext == ExtractRow

CsvSpec == CsvInit /\ [][CsvNext]_vars

\* --------------------------------------------------------------------- C13
\* C13: in the csv export, extracting the question fields of a record never
\* raises, whatever result.response, result.choices and the two pattern
\* strings hold; with malformed input the row is emitted with the question
\* fields empty.
C13_ExtractNeverRaises ==
    verdict.done => ~verdict.threw

\* --------------------------------------------------------------------- C17
\* C17 (as claimed): with a decodable response and a choices array, the two
\* answer strings hold one entry for every pair of a parsed id and a choice.
C17_CrossJoin ==
    (verdict.done /\ ~verdict.threw /\ ResponseTruthy(rec.response))
        => LET items == rec.choices.items
               ids == processStringToArray(rec.correctResponsesPattern.text)
               uids == processStringToArray(rec.responses.text)
           IN  /\ Len(verdict.questionCorrectAnswers) = Len(ids) * Len(items)
               /\ Len(verdict.usersAnswer) = Len(uids) * Len(items)
               /\ \A c \in 1..Len(items) :
                     /\ \A k \in 1..Len(ids) : \E e \in 1..Len(verdict.questionCorrectAnswers) :
                           verdict.questionCorrectAnswers[e] = [id |-> ids[k], answer |-> items[c]]
                     /\ \A k \in 1..Len(uids) : \E e \in 1..Len(verdict.usersAnswer) :
                           verdict.usersAnswer[e] = [id |-> uids[k], answer |-> items[c]]

\* C17 (amended): with a decodable response and a choices array, the two
\* answer strings hold exactly one entry per parsed id, in pattern order,
\* each with the description of the last choice; they are empty when the
\* array is empty.
C17_LastChoiceOnly ==
    (verdict.done /\ ~verdict.threw /\ ResponseTruthy(rec.response))
        => LET items == rec.choices.items
               n == Len(items)
               ids == processStringToArray(rec.correctResponsesPattern.text)
               uids == processStringToArray(rec.responses.text)
           IN  IF n = 0
               THEN verdict.questionCorrectAnswers = <<>> /\ verdict.usersAnswer = <<>>
               ELSE /\ verdict.questionCorrectAnswers =
                          [ k \in 1..Len(ids) |-> [id |-> ids[k], answer |-> items[n]] ]
                    /\ verdict.usersAnswer =
                          [ k \in 1..Len(uids) |-> [id |-> uids[k], answer |-> items[n]] ]

C17_Witness ==
    /\ verdict.done
    /\ ~verdict.threw
    /\ rec.response = "{\"success\":true}"
    /\ rec.choices.items = << "x", "y" >>
    /\ rec.correctResponsesPattern.text = << "[", Quote, "a", "[", ",", "]", "b", Quote, "]" >>
    /\ verdict.questionCorrectAnswers
          = << [id |-> << "a" >>, answer |-> "y"], [id |-> << "b" >>, answer |-> "y"] >>
    /\ Len(verdict.questionAnswers) = 2

\* ======================================================== the jsonl payload
Newline == "\n"
Backslash == "\\"

\* A record is a statement {"id": text}; it is represented by the text of
\* its id, a sequence of characters.
RecordTexts ==
    { <<>>, << "a" >>, << Newline >>, << Quote >>, << Backslash >>, << "a", Newline >>,
      << Backslash, "n" >> }

Collections == UNION { [1..n -> RecordTexts] : n \in 0..MaxRecords }

\* JSON.stringify of one character inside a string literal.
escapeChar(c) ==
    CASE c = Newline -> << Backslash, "n" >>
      [] c = Quote -> << Backslash, Quote >>
      [] c = Backslash -> << Backslash, Backslash >>
      [] OTHER -> << c >>

RECURSIVE escape(_)
escape(text) == IF text = <<>> THEN <<>> ELSE escapeChar(Head(text)) \o escape(Tail(text))

ObjectOpen == << "{", Quote, "i", "d", Quote, ":", Quote >>
ObjectClose == << Quote, "}" >>

\* app.js:250  JSON.stringify(statement)
JSONstringify(statement) == ObjectOpen \o escape(statement) \o ObjectClose

\* app.js:250  the argument of join is written '\\n' in the source: the two
\* characters backslash and n.
LineSeparator == << Backslash, "n" >>

\* app.js:250  statements.map(statement => JSON.stringify(statement)).join('\\n')
jsonl(statements) ==
    join([ i \in 1..Len(statements) |-> JSONstringify(statements[i]) ], LineSeparator)

\* JSON.parse of the inside of a string literal: an escape is decoded, a
\* bare quote, a bare control character or an unknown escape is an error.
RECURSIVE unescape(_)
unescape(s) ==
    IF s = <<>> THEN [ok |-> TRUE, text |-> <<>>]
    ELSE IF Head(s) \in { Quote, Newline } THEN [ok |-> FALSE, text |-> <<>>]
    ELSE IF Head(s) = Backslash
         THEN IF Len(s) < 2 \/ s[2] \notin { "n", Quote, Backslash }
              THEN [ok |-> FALSE, text |-> <<>>]
              ELSE LET rest == unescape(Drop(s, 2))
                       c == IF s[2] = "n" THEN Newline ELSE s[2]
                   IN  [ok |-> rest.ok, text |-> IF rest.ok THEN << c >> \o rest.text ELSE <<>>]
    ELSE LET rest == unescape(Tail(s))
         IN  [ok |-> rest.ok, text |-> IF rest.ok THEN << Head(s) >> \o rest.text ELSE <<>>]

\* JSON.parse of one line that should hold one record.
JSONparseRecord(line) ==
    LET n == Len(line)
        lo == Len(ObjectOpen)
        lc == Len(ObjectClose)
    IN  IF /\ n >= lo + lc
           /\ SubSeq(line, 1, lo) = ObjectOpen
           /\ SubSeq(line, n - lc + 1, n) = ObjectClose
        THEN unescape(SubSeq(line, lo + 1, n - lc))
        ELSE [ok |-> FALSE, text |-> <<>>]

\* The reader of the claim: the payload split on newline characters, an
\* empty payload read as no line at all.
Lines(payload) == IF payload = <<>> THEN <<>> ELSE split(payload, << Newline >>)

JsonlInit ==
    /\ InitSession
    /\ rec \in Collections
    /\ verdict = [done |-> FALSE, payload |-> <<>>]

ExportJsonl ==
    /\ ~verdict.done
    /\ verdict' = [done |-> TRUE, payload |-> jsonl(rec)]
    /\ UNCHANGED << isFetching, formDisabled, stopDisabled, alertMessage, shown, progress,
                    pc, limit, format, allStatements, more, fetchedCount, run, result,
                    inFlight, probe, probeStatus, requests, pages, stoppedAt,
                    processCalls, delivered, earlier, rec >>

JsonlNext == ExportJsonl

JsonlSpec == JsonlInit /\ [][JsonlNext]_vars

\* --------------------------------------------------------------------- C14
\* C14: the jsonl payload, split on newline characters and each line decoded
\* on its own, gives back the record collection: same length, same order,
\* equal records.
C14_JsonlRoundTrip ==
    verdict.done
        => LET lines == Lines(verdict.payload)
           IN  /\ Len(lines) = Len(rec)
               /\ \A i \in 1..Len(lines) :
                     /\ JSONparseRecord(lines[i]).ok
                     /\ i <= Len(rec) => JSONparseRecord(lines[i]).text = rec[i]

\* ================================================= the actor in the export
\* An mbox is a sequence of characters in which the prefix mailto: counts
\* as one; the filter of app.js:161 lets only a non-empty mbox through.
Mailto == "mailto:"
At == "@"
Star == "*"

AddrChars == { "u", "d", At }

Addresses == UNION { [1..n -> AddrChars] : n \in 0..MaxAddrLen }

Mboxes == { << Mailto >> \o a : a \in Addresses } \cup (Addresses \ { <<>> })

ExportInputs == [ mbox : Mboxes, format : { "csv", "jsonl", "raw" }, obfuscate : BOOLEAN ]

\* app.js:196,198  s.actor.mbox.replace('mailto:', ''): the first occurrence
\* is removed.
replaceMailto(mbox) ==
    LET i == IndexOf(mbox, << Mailto >>)
    IN  IF i = 0 THEN mbox ELSE SubSeq(mbox, 1, i - 1) \o Drop(mbox, i)

\* '*'.repeat(n) for n >= 0
RECURSIVE repeat(_, _)
repeat(c, n) == IF n = 0 THEN <<>> ELSE << c >> \o repeat(c, n - 1)

\* app.js:96-100  the destructuring keeps the first two parts of the split;
\* a missing second part prints as undefined; an empty local part makes
\* repeat(-1) throw a RangeError.
obfuscateEmail(email) ==
    LET parts == split(email, << At >>)
        localPart == parts[1]
        domain == IF Len(parts) >= 2 THEN parts[2] ELSE << "undefined" >>
    IN  IF Len(localPart) = 0
        THEN [threw |-> TRUE, text |-> <<>>]
        ELSE [threw |-> FALSE,
              text |-> << Head(localPart) >> \o repeat(Star, Len(localPart) - 1)
                          \o << At >> \o domain]

\* app.js:186-258  the actor's mailbox as it stands in the exported data:
\* the csv column is built from the mbox, obfuscated when the checkbox is
\* checked; jsonl and raw serialise the statement itself.
exportedActor(mbox, fmt, obfuscateCheckbox) ==
    IF fmt = "csv"
    THEN IF obfuscateCheckbox
         THEN LET o == obfuscateEmail(replaceMailto(mbox))
              IN  [done |-> TRUE, threw |-> o.threw, actor |-> o.text]
         ELSE [done |-> TRUE, threw |-> FALSE, actor |-> replaceMailto(mbox)]
    ELSE [done |-> TRUE, threw |-> FALSE, actor |-> mbox]

ActorInit ==
    /\ InitSession
    /\ rec \in ExportInputs
    /\ verdict = [done |-> FALSE, threw |-> FALSE, actor |-> <<>>]

ExportActor ==
    /\ ~verdict.done
    /\ verdict' = exportedActor(rec.mbox, rec.format, rec.obfuscate)
    /\ UNCHANGED << isFetching, formDisabled, stopDisabled, alertMessage, shown, progress,
                    pc, limit, format, allStatements, more, fetchedCount, run, result,
                    inFlight, probe, probeStatus, requests, pages, stoppedAt,
                    processCalls, delivered, earlier, rec >>

ActorNext == ExportActor

ActorSpec == ActorInit /\ [][ActorNext]_vars

\* An address with one @, a local part before it and a domain after it.
AddressOf(mbox) == IF mbox # <<>> /\ Head(mbox) = Mailto THEN Tail(mbox) ELSE mbox

AtPositions(addr) == { i \in 1..Len(addr) : addr[i] = At }

WellFormed(addr) ==
    /\ Cardinality(AtPositions(addr)) = 1
    /\ \A i \in AtPositions(addr) : 1 < i /\ i < Len(addr)

\* First character of the local part kept, the others masked, the domain
\* unchanged.
Masked(addr) ==
    LET p == CHOOSE i \in AtPositions(addr) : TRUE
    IN  [ i \in 1..Len(addr) |-> IF 1 < i /\ i < p THEN Star ELSE addr[i] ]

\* --------------------------------------------------------------------- C15
\* C15: with the anonymisation toggle on, the actor's address in the export
\* is the masked one (first character of the local part, mask characters,
\* the domain), whichever of csv, jsonl and raw is selected.
C15_NoUnmaskedMailbox ==
    (verdict.done /\ rec.obfuscate /\ WellFormed(AddressOf(rec.mbox)))
        => /\ ~verdict.threw
           /\ AddressOf(verdict.actor) = Masked(AddressOf(rec.mbox))

====
